---- MODULE Spec2Model ----
(***************************************************************************)
(* Model of health_checker/main.go: the RSS feed health checker.           *)
(*                                                                         *)
(* main reads rss_feeds.txt, launches one worker goroutine per URL behind  *)
(* a semaphore of capacity `concurrency`, each worker fetches and          *)
(* classifies its URL and writes results[idx]; a printer goroutine drains  *)
(* progressCh; main waits on the WaitGroup, closes progressCh, sorts the   *)
(* results and writes the markdown table.                                  *)
(*                                                                         *)
(* Strings that the code compares with < (Domain, FeedURL) are sequences   *)
(* of byte values; strings that are only compared for equality or searched *)
(* for fixed markers (Health, content types, body markup) are TLA+ strings *)
(* or tokens.                                                              *)
(***************************************************************************)
EXTENDS Integers, Sequences, FiniteSets

\* ------------------------------------------------------------------ bounds
\* longest input file explored with every list over URLUniverse
MaxLines == 2
\* longest URL list explored (the lists longer than MaxLines are LongFile(n))
MaxURLs == 6
\* longest results slice handed to the ranking on its own
MaxRank == 3
\* longest response body, in tokens, handed to the classifier on its own
MaxBody == 3

\* ------------------------------------------------------- program constants
concurrency == 5

\* ------------------------------------------------------------ byte strings
\* "http://"
httpPrefix == <<104, 116, 116, 112, 58, 47, 47>>
\* "http://a/x", "http://a/y", "http://b/x"
urlAX == <<104, 116, 116, 112, 58, 47, 47, 97, 47, 120>>
urlAY == <<104, 116, 116, 112, 58, 47, 47, 97, 47, 121>>
urlBX == <<104, 116, 116, 112, 58, 47, 47, 98, 47, 120>>
\* "http://b/y"
urlBY == <<104, 116, 116, 112, 58, 47, 47, 98, 47, 121>>
\* "http://B/x": url.Parse keeps the case of the host
urlUpper == <<104, 116, 116, 112, 58, 47, 47, 66, 47, 120>>
\* "http://c/x": the URL whose server answers with every reply of ClassifyReplies(MaxBody)
urlCX == <<104, 116, 116, 112, 58, 47, 47, 99, 47, 120>>
\* "a/x": parses, but has neither scheme nor host
urlRel == <<97, 47, 120>>
\* "n\x00": a control byte, url.Parse fails
urlBad == <<110, 0>>
\* "  " (blank), "```" (code fence), " http://a/x " (padded)
lineBlank == <<32, 32>>
lineFence == <<96, 96, 96>>
linePadded == <<32>> \o urlAX \o <<32>>

HasPrefix(s, p) ==
    /\ Len(s) >= Len(p)
    /\ SubSeq(s, 1, Len(p)) = p

\* strings.TrimSpace, for the space byte
RECURSIVE TrimLeft(_)
TrimLeft(s) ==
    IF s # <<>> /\ Head(s) = 32 THEN TrimLeft(Tail(s)) ELSE s

RECURSIVE TrimRight(_)
TrimRight(s) ==
    IF s # <<>> /\ s[Len(s)] = 32 THEN TrimRight(SubSeq(s, 1, Len(s) - 1)) ELSE s

TrimSpace(s) == TrimRight(TrimLeft(s))

\* Go's < on strings: bytewise lexicographic
RECURSIVE StrLess(_, _)
StrLess(a, b) ==
    IF b = <<>> THEN FALSE
    ELSE IF a = <<>> THEN TRUE
    ELSE IF Head(a) # Head(b) THEN Head(a) < Head(b)
    ELSE StrLess(Tail(a), Tail(b))

\* ------------------------------------------------------------ url.Parse
\* url.Parse rejects a string holding an ASCII control byte
ParseFails(u) == \E k \in 1..Len(u) : u[k] < 32 \/ u[k] = 127

RECURSIVE UntilSlash(_)
UntilSlash(s) ==
    IF s = <<>> \/ Head(s) = 47 THEN <<>>
    ELSE <<Head(s)>> \o UntilSlash(Tail(s))

\* pu.Host: the authority of an http:// URL, empty when there is none
Host(u) ==
    IF HasPrefix(u, httpPrefix)
    THEN UntilSlash(SubSeq(u, Len(httpPrefix) + 1, Len(u)))
    ELSE <<>>

\* r.Domain as the worker sets it
DomainOf(u) == IF ParseFails(u) THEN <<>> ELSE Host(u)

\* ------------------------------------------------------------ date parsing
\* A date string is described by the layout its trimmed, CDATA-stripped text
\* is written in ("garbage" for none), whether it is wrapped in CDATA, and the
\* instant it denotes, counted in half seconds since the zero time.Time.
layouts ==
    <<"RFC1123", "RFC1123Z", "RFC822", "RFC822Z", "RFC3339", "RFC3339Nano",
      "Mon, 02 Jan 2006 15:04:05 MST", "2006-01-02 15:04:05", "02 Jan 2006">>

DateStr(layout, cdata, inst) == [layout |-> layout, cdata |-> cdata, inst |-> inst]

NoDate == DateStr("none", FALSE, 0)

\* time.Parse(l, s) succeeds exactly when s is written in layout l
TimeParseOK(l, s) == s.layout = l

\* parseDateGuess: [ok, t]; the CDATA wrapping is stripped before any layout
\* is tried, and a string lacking its zone is retried as RFC1123 with " GMT"
parseDateGuess(s) ==
    LET stripped == [s EXCEPT !.cdata = FALSE]
    IN  IF \E k \in 1..Len(layouts) : TimeParseOK(layouts[k], stripped)
        THEN [ok |-> TRUE, t |-> stripped.inst]
        ELSE IF stripped.layout = "RFC1123 without zone"
        THEN [ok |-> TRUE, t |-> stripped.inst]
        ELSE [ok |-> FALSE, t |-> 0]

\* latest.UTC().Format(time.RFC3339): whole seconds, the fraction is dropped
FormatRFC3339(t) == <<t \div 2>>

\* ------------------------------------------------------------- feed bodies
\* A body is a sequence of tokens: a markup token [tag, date |-> NoDate], or
\* a complete date element <tag>date</tag> with tag one of the date tags.
Tok(tag) == [tag |-> tag, date |-> NoDate]

DateEl(tag, d) == [tag |-> tag, date |-> d]

\* strings.ToLower on the markers and content types the model uses
ToLower(s) ==
    CASE s = "<HTML" -> "<html"
      [] s = "<!DOCTYPE html" -> "<!doctype html"
      [] s = "<RSS" -> "<rss"
      [] s = "<Feed" -> "<feed"
      [] s = "<rdf:RDF" -> "<rdf:rdf"
      [] s = "<pubDate>" -> "<pubdate>"
      [] s = "<PUBDATE>" -> "<pubdate>"
      [] s = "<lastBuildDate>" -> "<lastbuilddate>"
      [] s = "text/HTML; charset=utf-8" -> "text/html; charset=utf-8"
      [] OTHER -> s

\* strings.Contains(contentType, "html")
ContentTypeHasHtml(ct) == ct \in {"text/html", "text/html; charset=utf-8", "application/xhtml+xml"}

\* strings.Contains(lower, marker): some token of the lowered body is marker
BodyContains(body, marker) == \E k \in 1..Len(body) : ToLower(body[k].tag) = marker

\* dateTagRE (case-insensitive): the contents of the date elements, in order
IsDateTag(tag) == ToLower(tag) \in {"<pubdate>", "<published>", "<updated>", "<dc:date>"}

RECURSIVE DateMatches(_)
DateMatches(body) ==
    IF body = <<>> THEN <<>>
    ELSE IF IsDateTag(Head(body).tag)
    THEN <<Head(body).date>> \o DateMatches(Tail(body))
    ELSE DateMatches(Tail(body))

\* the loop over matches: latest starts as the zero time
RECURSIVE LatestOf(_, _)
LatestOf(matches, latest) ==
    IF matches = <<>> THEN latest
    ELSE LET p == parseDateGuess(Head(matches))
         IN  IF p.ok /\ p.t > latest
             THEN LatestOf(Tail(matches), p.t)
             ELSE LatestOf(Tail(matches), latest)

IsHtml(body, contentType) ==
    \/ ContentTypeHasHtml(contentType)
    \/ BodyContains(body, "<html")
    \/ BodyContains(body, "<!doctype html")

IsFeedLike(body) ==
    \/ BodyContains(body, "<rss")
    \/ BodyContains(body, "<feed")
    \/ BodyContains(body, "<rdf:rdf")
    \/ BodyContains(body, "<item")
    \/ BodyContains(body, "<entry")

\* mutant: the feed markers are looked for before the HTML markers
inspectFeedBodyFeedFirst(body, contentType) ==
    IF IsFeedLike(body)
    THEN LET latest == LatestOf(DateMatches(body), 0)
         IN  IF latest # 0
             THEN [isRSS |-> TRUE, last |-> FormatRFC3339(latest), health |-> "healthy"]
             ELSE [isRSS |-> TRUE, last |-> <<>>, health |-> "healthy"]
    ELSE IF IsHtml(body, contentType)
    THEN [isRSS |-> FALSE, last |-> <<>>, health |-> "not an rss feed"]
    ELSE [isRSS |-> FALSE, last |-> <<>>, health |-> "broken"]

\* mutant: a feed without a date that parses is broken
inspectFeedBodyNeedsDate(body, contentType) ==
    IF IsHtml(body, contentType)
    THEN [isRSS |-> FALSE, last |-> <<>>, health |-> "not an rss feed"]
    ELSE IF IsFeedLike(body)
    THEN LET latest == LatestOf(DateMatches(body), 0)
         IN  IF latest # 0
             THEN [isRSS |-> TRUE, last |-> FormatRFC3339(latest), health |-> "healthy"]
             ELSE [isRSS |-> FALSE, last |-> <<>>, health |-> "broken"]
    ELSE [isRSS |-> FALSE, last |-> <<>>, health |-> "broken"]

\* mutant: the dates are extracted first, an HTML page with feed markup keeps them
inspectFeedBodyHtmlLate(body, contentType) ==
    LET latest == LatestOf(DateMatches(body), 0)
        last == IF latest # 0 THEN FormatRFC3339(latest) ELSE <<>>
    IN  IF IsFeedLike(body)
        THEN IF IsHtml(body, contentType)
             THEN [isRSS |-> TRUE, last |-> last, health |-> "not an rss feed"]
             ELSE [isRSS |-> TRUE, last |-> last, health |-> "healthy"]
        ELSE IF IsHtml(body, contentType)
        THEN [isRSS |-> FALSE, last |-> <<>>, health |-> "not an rss feed"]
        ELSE [isRSS |-> FALSE, last |-> <<>>, health |-> "broken"]

inspectFeedBody(body, contentType) ==
    IF IsHtml(body, contentType)
    THEN [isRSS |-> FALSE, last |-> <<>>, health |-> "not an rss feed"]
    ELSE IF IsFeedLike(body)
    THEN LET latest == LatestOf(DateMatches(body), 0)
         IN  IF latest # 0
             THEN [isRSS |-> TRUE, last |-> FormatRFC3339(latest), health |-> "healthy"]
             ELSE [isRSS |-> TRUE, last |-> <<>>, health |-> "healthy"]
    ELSE [isRSS |-> FALSE, last |-> <<>>, health |-> "broken"]

\* ------------------------------------------------------------- the network
\* What one fetch can come to: kind is where the worker's request ends.
Reply(kind, status, ct, body) == [kind |-> kind, status |-> status, ct |-> ct, body |-> body]

NewRequestErr == Reply("newrequest error", 0, "", <<>>)
DoErr == Reply("transport error", 0, "", <<>>)
ReadErr == Reply("read error", 200, "application/rss+xml", <<>>)
NotFound == Reply("response", 404, "text/xml", <<Tok("<rss")>>)
DatedFeed ==
    Reply("response", 200, "application/rss+xml",
          <<Tok("<RSS"), Tok("<item"),
            DateEl("<pubDate>", DateStr("garbage", FALSE, 0)),
            DateEl("<pubDate>", DateStr("RFC1123", FALSE, 5)),
            DateEl("<updated>", DateStr("RFC3339", TRUE, 3))>>)
BareFeed == Reply("response", 206, "text/xml", <<Tok("<Feed"), Tok("<entry")>>)
HtmlPage ==
    Reply("response", 200, "text/HTML; charset=utf-8",
          <<Tok("<HTML"), Tok("<rss"), DateEl("<pubDate>", DateStr("RFC1123", FALSE, 5))>>)
Unrecognized == Reply("response", 399, "application/json", <<Tok("{}")>>)

NoReply == Reply("none", 0, "", <<>>)

\* the tokens of the bodies handed to the classifier on its own: HTML and feed
\* markers in both cases, other text, and date elements: two that parse, one
\* without zone, one that does not parse, the zero time
\* (0001-01-01T00:00:00Z), a time before it, and a date outside the date tags
BodyTokens ==
    {Tok(""), Tok("<HTML"), Tok("<!doctype html"), Tok("<RSS"), Tok("<entry"), Tok("{}"),
     DateEl("<pubDate>", DateStr("RFC1123", FALSE, 5)),
     DateEl("<updated>", DateStr("RFC3339", TRUE, 3)),
     DateEl("<PUBDATE>", DateStr("RFC1123 without zone", FALSE, 7)),
     DateEl("<dc:date>", DateStr("garbage", FALSE, 0)),
     DateEl("<published>", DateStr("RFC3339", FALSE, 0)),
     DateEl("<updated>", DateStr("RFC3339", FALSE, -4)),
     DateEl("<lastBuildDate>", DateStr("RFC1123", FALSE, 9))}

ClassifyTypes == {"", "application/rss+xml", "text/HTML; charset=utf-8"}

\* every response with a body of n tokens
ClassifyResponses(n) ==
    {Reply("response", st, ct, body) :
        st \in {200, 404}, ct \in ClassifyTypes, body \in [1..n -> BodyTokens]}

\* the failures and every response with a body of n tokens
ClassifyReplies(n) == {DoErr, ReadErr} \cup ClassifyResponses(n)

\* the replies explored for each URL that reaches a server
ServerReplies(u) ==
    IF u = urlCX THEN ClassifyReplies(MaxBody)
    ELSE IF u = urlAX THEN {DatedFeed, NotFound}
    ELSE IF u = urlAY THEN {ReadErr}
    ELSE IF u = urlBY THEN {Unrecognized, HtmlPage}
    ELSE {BareFeed}

\* the outcomes of http.NewRequestWithContext, client.Do and io.ReadAll for u
FetchOutcomes(u) ==
    IF ParseFails(u) THEN {NewRequestErr}
    ELSE IF Host(u) = <<>> THEN {DoErr}
    ELSE ServerReplies(u)

\* ----------------------------------------------------------------- results
Result(id, domain, feedURL, lastItem, health) ==
    [ID |-> id, Domain |-> domain, FeedURL |-> feedURL, LastItem |-> lastItem, Health |-> health]

\* the zero Result of make([]Result, len(urls))
ZeroResult == Result(0, <<>>, <<>>, <<>>, "")

\* does the worker get as far as inspectFeedBody with this reply
Classified(reply) == reply.kind = "response" /\ reply.status < 400

\* mutant: the status code is not looked at
WorkerResultNoStatus(idx, feedURL, reply) ==
    LET r0 == Result(idx + 1, DomainOf(feedURL), feedURL, <<>>, "")
    IN  IF reply.kind = "newrequest error" THEN [r0 EXCEPT !.Health = "broken"]
        ELSE IF reply.kind = "transport error" THEN [r0 EXCEPT !.Health = "broken"]
        ELSE IF reply.kind = "read error" THEN [r0 EXCEPT !.Health = "broken"]
        ELSE LET ins == inspectFeedBody(reply.body, ToLower(reply.ct))
             IN  [r0 EXCEPT !.Health = ins.health,
                            !.LastItem = IF ins.isRSS THEN ins.last ELSE <<>>]

\* mutant: the sequence id is the 0-based index
WorkerResultZeroBased(idx, feedURL, reply) ==
    LET r0 == Result(idx, DomainOf(feedURL), feedURL, <<>>, "")
    IN  IF ~Classified(reply) THEN [r0 EXCEPT !.Health = "broken"]
        ELSE LET ins == inspectFeedBody(reply.body, ToLower(reply.ct))
             IN  [r0 EXCEPT !.Health = ins.health,
                            !.LastItem = IF ins.isRSS THEN ins.last ELSE <<>>]

\* mutant: the read-error path returns without setting the health
WorkerResultUnsetOnReadErr(idx, feedURL, reply) ==
    LET r0 == Result(idx + 1, DomainOf(feedURL), feedURL, <<>>, "")
    IN  IF reply.kind = "newrequest error" THEN [r0 EXCEPT !.Health = "broken"]
        ELSE IF reply.kind = "transport error" THEN [r0 EXCEPT !.Health = "broken"]
        ELSE IF reply.status >= 400 THEN [r0 EXCEPT !.Health = "broken"]
        ELSE IF reply.kind = "read error" THEN r0
        ELSE LET ins == inspectFeedBody(reply.body, ToLower(reply.ct))
             IN  [r0 EXCEPT !.Health = ins.health,
                            !.LastItem = IF ins.isRSS THEN ins.last ELSE <<>>]

\* the Result a worker builds for input position idx (0-based) from its reply
WorkerResult(idx, feedURL, reply) ==
    LET r0 == Result(idx + 1, DomainOf(feedURL), feedURL, <<>>, "")
    IN  IF reply.kind = "newrequest error" THEN [r0 EXCEPT !.Health = "broken"]
        ELSE IF reply.kind = "transport error" THEN [r0 EXCEPT !.Health = "broken"]
        ELSE IF reply.status >= 400 THEN [r0 EXCEPT !.Health = "broken"]
        ELSE IF reply.kind = "read error" THEN [r0 EXCEPT !.Health = "broken"]
        ELSE LET ins == inspectFeedBody(reply.body, ToLower(reply.ct))
             IN  [r0 EXCEPT !.Health = ins.health,
                            !.LastItem = IF ins.isRSS THEN ins.last ELSE <<>>]

\* ------------------------------------------------------------------ ranking
\* mutant: the rank map is read without the ok check, a missing key gives 0
getRankNoFallback(h) ==
    IF h = "" THEN 2
    ELSE IF h = "healthy" THEN 0
    ELSE IF h = "not an rss feed" THEN 1
    ELSE IF h = "broken" THEN 2
    ELSE 0

getRank(h) ==
    IF h = "" THEN 2
    ELSE IF h = "healthy" THEN 0
    ELSE IF h = "not an rss feed" THEN 1
    ELSE IF h = "broken" THEN 2
    ELSE 2

\* the less function handed to sort.SliceStable
Less(a, b) ==
    IF getRank(a.Health) # getRank(b.Health) THEN getRank(a.Health) < getRank(b.Health)
    ELSE IF a.Domain # b.Domain THEN StrLess(a.Domain, b.Domain)
    ELSE StrLess(a.FeedURL, b.FeedURL)

\* mutant: x goes in front of the elements it ties with
RECURSIVE InsertUnstable(_, _)
InsertUnstable(sorted, x) ==
    IF sorted = <<>> THEN <<x>>
    ELSE IF ~Less(sorted[Len(sorted)], x)
    THEN InsertUnstable(SubSeq(sorted, 1, Len(sorted) - 1), x) \o <<sorted[Len(sorted)]>>
    ELSE sorted \o <<x>>

\* stable insertion: x goes behind every element it is not less than
RECURSIVE InsertStable(_, _)
InsertStable(sorted, x) ==
    IF sorted = <<>> THEN <<x>>
    ELSE IF Less(x, sorted[Len(sorted)])
    THEN InsertStable(SubSeq(sorted, 1, Len(sorted) - 1), x) \o <<sorted[Len(sorted)]>>
    ELSE sorted \o <<x>>

RECURSIVE SortFrom(_, _)
SortFrom(sorted, rest) ==
    IF rest = <<>> THEN sorted
    ELSE SortFrom(InsertStable(sorted, Head(rest)), Tail(rest))

\* sort.SliceStable(results, less)
SliceStable(rs) == SortFrom(<<>>, rs)

\* ------------------------------------------------------------------- report
\* strings.ReplaceAll(s, "|", "%7C")
RECURSIVE EscapePipes(_)
EscapePipes(s) ==
    IF s = <<>> THEN <<>>
    ELSE IF Head(s) = 124 THEN <<37, 55, 67>> \o EscapePipes(Tail(s))
    ELSE <<Head(s)>> \o EscapePipes(Tail(s))

\* "-"
dash == <<45>>

\* the table row of the Result at 0-based position i of the ranked slice
Row(i, r) ==
    [id |-> i + 1,
     domain |-> IF r.Domain = <<>> THEN dash ELSE r.Domain,
     url |-> EscapePipes(r.FeedURL),
     last |-> IF r.LastItem = <<>> THEN dash ELSE r.LastItem,
     health |-> IF r.Health = "" THEN "broken" ELSE r.Health]

Rows(rs) == [k \in 1..Len(rs) |-> Row(k - 1, rs[k])]

\* -------------------------------------------------------------- input file
\* the URLs of which every list of at most MaxLines is explored
URLUniverse == {urlAX, urlAY, urlBX}

ShortFiles == UNION {[1..n -> URLUniverse] : n \in 0..MaxLines}

\* files with blank, code-fence and padded lines, and the remaining URLs
MessyFiles ==
    {<<lineBlank, linePadded, lineFence>>,
     <<lineFence, urlBad, lineBlank, urlBY, urlRel>>}

\* longer lists: URLs without a host to connect to
LongFile(n) == [k \in 1..n |-> urlRel]

InputFiles == ShortFiles \cup MessyFiles \cup {LongFile(n) : n \in (MaxLines + 1)..MaxURLs}

\* the scanner loop: trimmed lines, blank and code-fence lines skipped
RECURSIVE ScanLines(_)
ScanLines(lines) ==
    IF lines = <<>> THEN <<>>
    ELSE LET line == TrimSpace(Head(lines))
         IN  IF line = <<>> THEN ScanLines(Tail(lines))
             ELSE IF HasPrefix(line, lineFence) THEN ScanLines(Tail(lines))
             ELSE <<line>> \o ScanLines(Tail(lines))

\* -------------------------------------------------------------------- state
VARIABLES
    input,       \* the lines of rss_feeds.txt not yet scanned
    urls,        \* the URL list
    mainPc,      \* where main is: open, dispatch, close, sort, create, rows, done, exit1
    next,        \* the dispatch loop's i: the 0-based index launched next
    sem,         \* number of tokens in the sem channel
    wg,          \* the WaitGroup counter
    processed,   \* the atomic completion counter
    results,     \* the results slice; slot idx is results[idx + 1]
    progressCh,  \* the messages buffered in progressCh, oldest first
    closeCount,  \* how many times progressCh has been closed
    wpc,         \* per worker: idle, fetch, incr, send, release, wgdone, done
    wn,          \* per worker: its local n, 0 outside incr..send
    outcome,     \* per worker: the reply its fetch came to (NoReply before)
    cpc,         \* the printer goroutine: unborn, recv, print, exited
    msg,         \* the printer's loop variable: the message received last
    recvCount,   \* number of messages the printer has received
    recvN,       \* the counter values of the messages the printer has received
    printed,     \* number of progress lines printed
    wlog,        \* per slot: the workers that wrote it, in order
    sentCount,   \* number of messages sent on progressCh
    panicked,    \* a goroutine panicked (send on or close of a closed channel)
    stderr,      \* the messages written to stderr
    table,       \* the table on stdout: [header, rows]
    file,        \* rss_health.md: [created, header, rows, flushed]
    preRank      \* the results slice as it was handed to sort.SliceStable

vars ==
    <<input, urls, mainPc, next, sem, wg, processed, results, progressCh, closeCount,
      wpc, wn, outcome, cpc, msg, recvCount, recvN, printed, wlog, sentCount, panicked,
      stderr, table, file, preRank>>

poolVars == <<next, sem, wg, processed, results, progressCh, closeCount, wpc, wn, outcome, wlog, sentCount, panicked>>
printerVars == <<cpc, msg, recvCount, recvN, printed>>
reportVars == <<stderr, table, file>>

N == Len(urls)

Workers == 0..(N - 1)

\* mutant: a channel one slot short of the URL count
ChanCapOneShort == N - 1

\* the capacity of progressCh: make(chan string, len(urls))
ChanCap == N

Msg(n, url, health) == [n |-> n, url |-> url, health |-> health]

NoMsg == Msg(0, <<>>, "")

\* the process is alive: main has not returned or exited, nothing panicked
Running == mainPc \notin {"done", "exit1"} /\ ~panicked

\* everything but the input file, as main starts
AtStart ==
    /\ urls = <<>>
    /\ mainPc = "open"
    /\ next = 0
    /\ sem = 0
    /\ wg = 0
    /\ processed = 0
    /\ results = <<>>
    /\ progressCh = <<>>
    /\ closeCount = 0
    /\ wpc = <<>>
    /\ wn = <<>>
    /\ outcome = <<>>
    /\ cpc = "unborn"
    /\ msg = NoMsg
    /\ recvCount = 0
    /\ recvN = {}
    /\ printed = 0
    /\ wlog = <<>>
    /\ sentCount = 0
    /\ panicked = FALSE
    /\ stderr = <<>>
    /\ table = [header |-> FALSE, rows |-> <<>>]
    /\ file = [created |-> FALSE, header |-> FALSE, rows |-> <<>>, flushed |-> FALSE]
    /\ preRank = <<>>

Init ==
    /\ input \in InputFiles
    /\ AtStart

\* ------------------------------------------------------------ main: input
\* os.Open, the scanner loop, and the set-up of the pool and the printer
ReadInput ==
    /\ mainPc = "open"
    /\ \E openOK \in BOOLEAN, scanOK \in BOOLEAN :
        IF ~openOK
        THEN /\ stderr' = Append(stderr, "failed to open rss_feeds.txt")
             /\ mainPc' = "exit1"
             /\ UNCHANGED <<input, urls, wpc, wn, outcome, results, wlog, cpc>>
        ELSE IF ~scanOK
        THEN /\ stderr' = Append(stderr, "error reading rss_feeds.txt")
             /\ mainPc' = "exit1"
             /\ input' = <<>>
             /\ UNCHANGED <<urls, wpc, wn, outcome, results, wlog, cpc>>
        ELSE LET us == ScanLines(input)
             IN  /\ urls' = us
                 /\ input' = <<>>
                 /\ results' = [k \in 1..Len(us) |-> ZeroResult]
                 /\ wpc' = [idx \in 0..(Len(us) - 1) |-> "idle"]
                 /\ wn' = [idx \in 0..(Len(us) - 1) |-> 0]
                 /\ outcome' = [idx \in 0..(Len(us) - 1) |-> NoReply]
                 /\ wlog' = [idx \in 0..(Len(us) - 1) |-> <<>>]
                 /\ cpc' = "recv"
                 /\ mainPc' = "dispatch"
                 /\ UNCHANGED stderr
    /\ UNCHANGED <<next, sem, wg, processed, progressCh, closeCount, sentCount, panicked>>
    /\ UNCHANGED <<msg, recvCount, recvN, printed, table, file>>
    /\ UNCHANGED preRank

\* ------------------------------------------------------- main: dispatching
\* mutant: the semaphore admits one worker too many
SemHasRoomOffByOne(s) == s <= concurrency

\* sem <- struct{}{} can proceed
SemHasRoom(s) == s < concurrency

\* wg.Add(1), sem <- struct{}{} and go func(idx, feedURL) for i = next
Launch ==
    /\ Running
    /\ mainPc = "dispatch"
    /\ next < N
    /\ SemHasRoom(sem)
    /\ wg' = wg + 1
    /\ sem' = sem + 1
    /\ wpc' = [wpc EXCEPT ![next] = "fetch"]
    /\ next' = next + 1
    /\ UNCHANGED <<input, urls, mainPc, processed, results, progressCh, closeCount, wn, outcome, wlog, sentCount, panicked>>
    /\ UNCHANGED printerVars
    /\ UNCHANGED reportVars
    /\ UNCHANGED preRank

\* mutant: the wait returns while one worker has not called wg.Done()
WaitReturnsEarly(w) == w <= 1

\* mutant: main does not wait at all
WaitReturnsAlways(w) == TRUE

\* wg.Wait() can return
WaitReturns(w) == w = 0

\* the loop is over and wg.Wait() returns
Wait ==
    /\ Running
    /\ mainPc = "dispatch"
    /\ next = N
    /\ WaitReturns(wg)
    /\ mainPc' = "close"
    /\ UNCHANGED <<input, urls>>
    /\ UNCHANGED poolVars
    /\ UNCHANGED printerVars
    /\ UNCHANGED reportVars
    /\ UNCHANGED preRank

\* mutant: closing drops what is buffered
AfterCloseDrops(ch) == <<>>

\* what close(progressCh) leaves in the buffer
AfterClose(ch) == ch

\* close(progressCh)
Close ==
    /\ Running
    /\ mainPc = "close"
    /\ closeCount' = closeCount + 1
    /\ panicked' = (closeCount > 0)
    /\ progressCh' = AfterClose(progressCh)
    /\ mainPc' = "sort"
    /\ UNCHANGED <<input, urls, next, sem, wg, processed, results, wpc, wn, outcome, wlog, sentCount>>
    /\ UNCHANGED printerVars
    /\ UNCHANGED reportVars
    /\ UNCHANGED preRank

\* ---------------------------------------------------------------- workers
\* mutant: every worker writes the first slot
SlotZero(idx) == 0

\* the slot of results that the worker for idx writes
Slot(idx) == idx

\* the worker body up to and including results[idx] = r, on every path
Fetch(idx) ==
    /\ Running
    /\ idx \in Workers
    /\ wpc[idx] = "fetch"
    /\ \E reply \in FetchOutcomes(urls[idx + 1]) :
        /\ outcome' = [outcome EXCEPT ![idx] = reply]
        /\ results' = [results EXCEPT ![Slot(idx) + 1] = WorkerResult(idx, urls[idx + 1], reply)]
        /\ wpc' = [wpc EXCEPT ![idx] = IF Classified(reply) THEN "incr" ELSE "release"]
    /\ wlog' = [wlog EXCEPT ![Slot(idx)] = Append(@, idx)]
    /\ UNCHANGED <<input, urls, mainPc, next, sem, wg, processed, progressCh, closeCount, wn, sentCount, panicked>>
    /\ UNCHANGED printerVars
    /\ UNCHANGED reportVars
    /\ UNCHANGED preRank

\* mutant: the counter is loaded, not incremented
AddInt32Load(p) == p

\* atomic.AddInt32(&processed, 1) on an int32
AddInt32(p) == IF p = 2147483647 THEN -2147483647 - 1 ELSE p + 1

\* n := atomic.AddInt32(&processed, 1)
Incr(idx) ==
    /\ Running
    /\ idx \in Workers
    /\ wpc[idx] = "incr"
    /\ processed' = AddInt32(processed)
    /\ wn' = [wn EXCEPT ![idx] = AddInt32(processed)]
    /\ wpc' = [wpc EXCEPT ![idx] = "send"]
    /\ UNCHANGED <<input, urls, mainPc, next, sem, wg, results, progressCh, closeCount, outcome, wlog, sentCount, panicked>>
    /\ UNCHANGED printerVars
    /\ UNCHANGED reportVars
    /\ UNCHANGED preRank

\* progressCh <- fmt.Sprintf(...): blocks while the buffer of len(urls) is full
Send(idx) ==
    /\ Running
    /\ idx \in Workers
    /\ wpc[idx] = "send"
    /\ Len(progressCh) < ChanCap
    /\ IF closeCount > 0
       THEN /\ panicked' = TRUE
            /\ UNCHANGED <<progressCh, sentCount>>
       ELSE /\ progressCh' = Append(progressCh, Msg(wn[idx], results[idx + 1].FeedURL, results[idx + 1].Health))
            /\ sentCount' = sentCount + 1
            /\ UNCHANGED panicked
    /\ wn' = [wn EXCEPT ![idx] = 0]
    /\ wpc' = [wpc EXCEPT ![idx] = "release"]
    /\ UNCHANGED <<input, urls, mainPc, next, sem, wg, processed, results, closeCount, outcome, wlog>>
    /\ UNCHANGED printerVars
    /\ UNCHANGED reportVars
    /\ UNCHANGED preRank

\* mutant: the slot is never given back
SemNeverReleased(s) == s

\* the token count of sem after the deferred <-sem
SemAfterRelease(s) == s - 1

\* defer func() { <-sem }()
Release(idx) ==
    /\ Running
    /\ idx \in Workers
    /\ wpc[idx] = "release"
    /\ sem > 0
    /\ sem' = SemAfterRelease(sem)
    /\ wpc' = [wpc EXCEPT ![idx] = "wgdone"]
    /\ UNCHANGED <<input, urls, mainPc, next, wg, processed, results, progressCh, closeCount, wn, outcome, wlog, sentCount, panicked>>
    /\ UNCHANGED printerVars
    /\ UNCHANGED reportVars
    /\ UNCHANGED preRank

\* defer wg.Done()
Done(idx) ==
    /\ Running
    /\ idx \in Workers
    /\ wpc[idx] = "wgdone"
    /\ wg' = wg - 1
    /\ wpc' = [wpc EXCEPT ![idx] = "done"]
    /\ UNCHANGED <<input, urls, mainPc, next, sem, processed, results, progressCh, closeCount, wn, outcome, wlog, sentCount, panicked>>
    /\ UNCHANGED printerVars
    /\ UNCHANGED reportVars
    /\ UNCHANGED preRank

\* ------------------------------------------------------- printer goroutine
\* for msg := range progressCh: a message is received
Recv ==
    /\ Running
    /\ cpc = "recv"
    /\ progressCh # <<>>
    /\ msg' = Head(progressCh)
    /\ progressCh' = Tail(progressCh)
    /\ recvCount' = recvCount + 1
    /\ recvN' = recvN \cup {Head(progressCh).n}
    /\ cpc' = "print"
    /\ UNCHANGED <<input, urls, mainPc, next, sem, wg, processed, results, closeCount, wpc, wn, outcome, wlog, sentCount, panicked>>
    /\ UNCHANGED printed
    /\ UNCHANGED reportVars
    /\ UNCHANGED preRank

\* fmt.Println(msg)
Println ==
    /\ Running
    /\ cpc = "print"
    /\ printed' = printed + 1
    /\ cpc' = "recv"
    /\ UNCHANGED <<input, urls, mainPc>>
    /\ UNCHANGED poolVars
    /\ UNCHANGED <<msg, recvCount, recvN>>
    /\ UNCHANGED reportVars
    /\ UNCHANGED preRank

\* the range loop ends: the channel is closed and its buffer is empty
PrinterExit ==
    /\ Running
    /\ cpc = "recv"
    /\ progressCh = <<>>
    /\ closeCount > 0
    /\ cpc' = "exited"
    /\ UNCHANGED <<input, urls, mainPc>>
    /\ UNCHANGED poolVars
    /\ UNCHANGED <<msg, recvCount, recvN, printed>>
    /\ UNCHANGED reportVars
    /\ UNCHANGED preRank

\* ------------------------------------------------- main: ranking, reporting
\* sort.SliceStable(results, ...)
Sort ==
    /\ Running
    /\ mainPc = "sort"
    /\ preRank' = results
    /\ results' = SliceStable(results)
    /\ mainPc' = "create"
    /\ UNCHANGED <<input, urls, next, sem, wg, processed, progressCh, closeCount, wpc, wn, outcome, wlog, sentCount, panicked>>
    /\ UNCHANGED printerVars
    /\ UNCHANGED reportVars

\* mutant: a failed os.Create ends the process
CreateOutExits ==
    /\ Running
    /\ mainPc = "create"
    /\ \E createOK \in BOOLEAN :
        IF createOK
        THEN /\ file' = [file EXCEPT !.created = TRUE, !.header = TRUE]
             /\ table' = [table EXCEPT !.header = TRUE]
             /\ mainPc' = "rows"
             /\ UNCHANGED stderr
        ELSE /\ stderr' = Append(stderr, "failed to create rss_health.md")
             /\ mainPc' = "exit1"
             /\ UNCHANGED <<file, table>>
    /\ UNCHANGED <<input, urls>>
    /\ UNCHANGED poolVars
    /\ UNCHANGED printerVars
    /\ UNCHANGED preRank

\* os.Create(outFile), then the header to the terminal and to the file if any
CreateOut ==
    /\ Running
    /\ mainPc = "create"
    /\ \E createOK \in BOOLEAN :
        IF createOK
        THEN /\ file' = [file EXCEPT !.created = TRUE, !.header = TRUE]
             /\ UNCHANGED stderr
        ELSE /\ stderr' = Append(stderr, "failed to create rss_health.md")
             /\ UNCHANGED file
    /\ table' = [table EXCEPT !.header = TRUE]
    /\ mainPc' = "rows"
    /\ UNCHANGED <<input, urls>>
    /\ UNCHANGED poolVars
    /\ UNCHANGED printerVars
    /\ UNCHANGED preRank

\* the rows to the terminal and to the file if any, the flush, and main returns
WriteRows ==
    /\ Running
    /\ mainPc = "rows"
    /\ table' = [table EXCEPT !.rows = Rows(results)]
    /\ file' = IF file.created
               THEN [file EXCEPT !.rows = Rows(results), !.flushed = TRUE]
               ELSE file
    /\ mainPc' = "done"
    /\ UNCHANGED <<input, urls, stderr>>
    /\ UNCHANGED poolVars
    /\ UNCHANGED printerVars
    /\ UNCHANGED preRank

\* ------------------------------------------------------------ specification
Next ==
    \/ ReadInput
    \/ Launch
    \/ Wait
    \/ Close
    \/ \E idx \in Workers : Fetch(idx)
    \/ \E idx \in Workers : Incr(idx)
    \/ \E idx \in Workers : Send(idx)
    \/ \E idx \in Workers : Release(idx)
    \/ \E idx \in Workers : Done(idx)
    \/ Recv
    \/ Println
    \/ PrinterExit
    \/ Sort
    \/ CreateOut
    \/ WriteRows

Spec == Init /\ [][Next]_vars

\* a step of the dispatch loop, and a step of some worker
DispatchStep == Launch \/ Wait

WorkerStep ==
    \E idx \in Workers : Fetch(idx) \/ Incr(idx) \/ Send(idx) \/ Release(idx) \/ Done(idx)

\* the scheduler runs main and the workers whenever they can take a step, and
\* every fetch returns (the client and the request context time out); nothing
\* is assumed of the printer
Fairness ==
    /\ WF_vars(ReadInput)
    /\ WF_vars(DispatchStep)
    /\ WF_vars(WorkerStep)

FairSpec == Init /\ [][Next]_vars /\ Fairness

\* ------------------------------------------------- the ranking on its own
\* sort.SliceStable and its less function applied to every results slice of
\* at most MaxRank entries: two URLs of one host, a host in upper case, a URL
\* without host, and every health value getRank distinguishes, the empty one
\* and one it does not know included.
RankEntries ==
    {<<urlAX, "healthy">>, <<urlAY, "healthy">>, <<urlUpper, "healthy">>,
     <<urlAX, "not an rss feed">>, <<urlUpper, "not an rss feed">>,
     <<urlAX, "broken">>, <<urlAY, "broken">>, <<urlRel, "broken">>,
     <<urlAX, "">>, <<urlUpper, "">>,
     <<urlAY, "unknown">>, <<urlRel, "unknown">>}

RankEntry(k, e) ==
    Result(k, DomainOf(e[1]), e[1], IF e[2] = "healthy" /\ e[1] = urlAX THEN <<2>> ELSE <<>>, e[2])

\* the slice of n entries that f picks, with the sequence ids 1..n
RankInput(n, f) == [k \in 1..n |-> RankEntry(k, f[k])]

\* main at the call of sort.SliceStable: the pool has drained, the channel is
\* closed and the printer has left its loop
RankInit ==
    /\ \E n \in 0..MaxRank : \E f \in [1..n -> RankEntries] : results = RankInput(n, f)
    /\ input = <<>>
    /\ urls = [k \in 1..Len(results) |-> results[k].FeedURL]
    /\ mainPc = "sort"
    /\ next = Len(results)
    /\ sem = 0
    /\ wg = 0
    /\ processed = 0
    /\ progressCh = <<>>
    /\ closeCount = 1
    /\ wpc = [idx \in 0..(Len(results) - 1) |-> "done"]
    /\ wn = [idx \in 0..(Len(results) - 1) |-> 0]
    /\ outcome = [idx \in 0..(Len(results) - 1) |-> NoReply]
    /\ cpc = "exited"
    /\ msg = NoMsg
    /\ recvCount = 0
    /\ recvN = {}
    /\ printed = 0
    /\ wlog = [k \in 1..Len(results) |-> <<k - 1>>]
    /\ sentCount = 0
    /\ panicked = FALSE
    /\ stderr = <<>>
    /\ table = [header |-> FALSE, rows |-> <<>>]
    /\ file = [created |-> FALSE, header |-> FALSE, rows |-> <<>>, flushed |-> FALSE]
    /\ preRank = <<>>

RankNext == Sort

RankSpec == RankInit /\ [][RankNext]_vars

\* --------------------------------------------- the classifier on its own
\* one worker fetching urlCX, whose reply is any of ClassifyReplies(MaxBody)
ClassifyInit ==
    /\ input = <<urlCX>>
    /\ AtStart

ClassifyNext ==
    \/ ReadInput
    \/ Launch
    \/ \E idx \in Workers : Fetch(idx)

ClassifySpec == ClassifyInit /\ [][ClassifyNext]_vars

\* ------------------------------------------------------------------ claims
\* the workers that hold a pool slot: launched, <-sem not yet executed
InFlight == {idx \in Workers : wpc[idx] \in {"fetch", "incr", "send", "release"}}

\* wg.Wait() has returned
Drained == mainPc \in {"close", "sort", "create", "rows", "done"}

\* the worker's fetch has ended in one of the failure paths
Failed(idx) == outcome[idx] # NoReply /\ ~Classified(outcome[idx])

\* C1: at most `concurrency` workers hold a pool slot in any reachable state,
\* so the dispatcher never launches a worker while all slots are taken.
ConcurrencyBound ==
    /\ Cardinality(InFlight) <= concurrency
    /\ sem <= concurrency

\* C1 witness: all slots are taken and a URL is still waiting to be launched
PoolFullWitness ==
    /\ mainPc = "dispatch"
    /\ Cardinality(InFlight) = concurrency
    /\ next < N

\* C2: every slot is written at most once and only by the worker launched for
\* it, and once wg.Wait() has returned every slot has been written and every
\* worker has finished, so ranking and reporting start on complete results.
SlotWrittenOnce ==
    /\ \A idx \in Workers : wlog[idx] \in {<<>>, <<idx>>}
    /\ Drained => \A idx \in Workers : wlog[idx] = <<idx>> /\ wpc[idx] = "done"

\* C2 witness: main is about to rank two or more written slots
RankingStartsWitness ==
    /\ mainPc = "sort"
    /\ N >= 2
    /\ \A idx \in Workers : Len(wlog[idx]) = 1

\* the safety part of C3, state by state
FailureInv ==
    \A idx \in Workers :
        Failed(idx) =>
            /\ wpc[idx] \in {"release", "wgdone", "done"}
            /\ ~panicked
            /\ mainPc # "exit1"
            /\ mainPc \in {"dispatch", "close", "sort"} =>
                   /\ results[idx + 1].Health = "broken"
                   /\ results[idx + 1].LastItem = <<>>

\* the step in which a worker's fetch ends touches no other worker and not main
FailureStep ==
    \A idx \in Workers :
        (outcome[idx] = NoReply /\ outcome'[idx] # NoReply) =>
            /\ \A j \in Workers \ {idx} :
                   /\ results'[j + 1] = results[j + 1]
                   /\ wpc'[j] = wpc[j]
                   /\ outcome'[j] = outcome[j]
            /\ mainPc' = mainPc
            /\ next' = next
            /\ sem' = sem
            /\ wg' = wg

\* C3: a worker whose fetch fails (request construction, transport or timeout,
\* status >= 400, body read) records broken in its own Result and goes on to
\* release its slot and signal completion; its failure changes no other
\* worker's Result or position, and the run still launches and finishes every
\* worker and wg.Wait() returns.
FailureSemantics ==
    /\ []FailureInv
    /\ [][FailureStep]_vars
    /\ (\E idx \in Workers : Failed(idx))
           ~> (Drained /\ next = N /\ \A idx \in Workers : wpc[idx] = "done")

\* C3 witness: the run has ended with one worker's request having failed and
\* another worker's Result classified other than broken
FailureWitness ==
    /\ mainPc = "done"
    /\ \E i \in Workers, j \in Workers :
        /\ outcome[i].kind \in {"newrequest error", "transport error"}
        /\ Classified(outcome[j])
        /\ \E k \in 1..N : results[k].ID = j + 1 /\ results[k].Health # "broken"

\* C4 as claimed: once the pool has drained, as many notifications have been
\* sent as there are input URLs (every completed worker sent exactly one).
OneNotificationPerWorker == Drained => sentCount = N

\* C5 as claimed: the printer receives the counter values in strictly
\* increasing order.
ReceiveOrderIncreasing ==
    [][(recvCount' = recvCount + 1 /\ recvCount > 0) => msg'.n > msg.n]_vars

\* the counter values of the notifications not yet received: buffered in the
\* channel, or held by a worker between its increment and its send
ChannelNs == {progressCh[k].n : k \in 1..Len(progressCh)}
HeldNs == {wn[idx] : idx \in {w \in Workers : wpc[w] = "send"}}

\* C5 as amended: the counter is monotonically increasing, so the notifications
\* carry pairwise distinct values, exactly 1..processed; nothing is said of the
\* order in which the printer receives them.
CounterValuesDistinct ==
    /\ \A i \in 1..Len(progressCh), j \in 1..Len(progressCh) :
           i # j => progressCh[i].n # progressCh[j].n
    /\ \A v \in Workers, w \in Workers :
           (v # w /\ wpc[v] = "send" /\ wpc[w] = "send") => wn[v] # wn[w]
    /\ ChannelNs \cap HeldNs = {}
    /\ ChannelNs \cap recvN = {}
    /\ HeldNs \cap recvN = {}
    /\ Cardinality(recvN) = recvCount
    /\ ChannelNs \cup HeldNs \cup recvN = 1..processed

\* C5 witness: the printer has received 2 before 1
OutOfOrderWitness ==
    /\ cpc = "print"
    /\ msg.n = 1
    /\ 2 \in recvN

\* C6: under fair scheduling, with every fetch returning, the dispatcher
\* launches every worker, every worker finishes and wg.Wait() returns; until
\* then some step is always possible (no deadlock on sem, wg or progressCh).
PoolTerminates ==
    /\ (mainPc = "dispatch") ~> (Drained /\ next = N /\ \A idx \in Workers : wpc[idx] = "done")
    /\ [](mainPc = "dispatch" => ENABLED (DispatchStep \/ WorkerStep))

\* C6 witness: a list longer than the pool has drained, timeouts included
PoolDrainedWitness ==
    /\ mainPc = "close"
    /\ N > concurrency
    /\ \E idx \in Workers : outcome[idx] = DoErr
    /\ \A idx \in Workers : wpc[idx] = "done"

\* C7: between wg.Wait() and the ranking, results holds one Result per URL in
\* input order: results[i].ID = i + 1 and results[i].FeedURL = urls[i].
PreRankInputOrder ==
    mainPc \in {"close", "sort"} =>
        /\ Len(results) = N
        /\ \A idx \in Workers :
               /\ results[idx + 1].ID = idx + 1
               /\ results[idx + 1].FeedURL = urls[idx + 1]

\* C7 witness: the pool drained with the second URL's worker having sent its
\* notification before the first URL's worker
CompletionReorderedWitness ==
    /\ mainPc = "sort"
    /\ N >= 2
    /\ urls[1] # urls[2]
    /\ Len(progressCh) >= 2
    /\ progressCh[1].url = urls[2]
    /\ progressCh[2].url = urls[1]

\* the results every worker builds from its URL and the reply its fetch got
ExpectedResults == [k \in 1..N |-> WorkerResult(k - 1, urls[k], outcome[k - 1])]

\* C8: the ranked results, and the table written from them, are a function of
\* the URL list and the per-URL fetch outcomes alone, whatever the schedule.
RankedOutputDetermined ==
    /\ mainPc \in {"create", "rows", "done"} => results = SliceStable(ExpectedResults)
    /\ mainPc = "done" => table.rows = Rows(SliceStable(ExpectedResults))

\* C8 witness: the run ended with workers completing against input order and
\* the ranking moving the second URL in front of the first
RankedReorderedWitness ==
    /\ mainPc = "done"
    /\ N >= 2
    /\ results[1].ID = 2
    /\ Len(progressCh) >= 2
    /\ progressCh[1].n = 2
    /\ progressCh[2].n = 1

\* C9: the printer's range loop ends only when every notification sent has
\* been received and printed, and close(progressCh) leaves the buffer as it is.
PrinterSeesAll ==
    /\ [](cpc = "exited" => (progressCh = <<>> /\ recvCount = sentCount /\ printed = sentCount))
    /\ [][closeCount' # closeCount => progressCh' = progressCh]_vars

\* C9 witness: the loop has ended after the printer received two notifications
PrinterExitedWitness ==
    /\ cpc = "exited"
    /\ sentCount >= 2
    /\ recvCount = sentCount

\* C10: progressCh is closed exactly once, by main after wg.Wait(), and only
\* when every worker has finished; no worker sends on the closed channel
\* (which would panic).
ClosedOnceAfterWorkers ==
    /\ closeCount <= 1
    /\ ~panicked
    /\ closeCount > 0 => \A idx \in Workers : wpc[idx] = "done"
    /\ closeCount > 0 => Drained
    /\ mainPc \in {"sort", "create", "rows", "done"} => closeCount = 1

\* C10 witness: the channel is closed with notifications still buffered
ClosedWitness ==
    /\ closeCount = 1
    /\ sentCount >= 1
    /\ Len(progressCh) = sentCount

\* ------------------------------------------------------------------ ranking
\* the tier of a health value: healthy, not a feed, broken; anything else broken
Tier(h) == IF h = "healthy" THEN 0 ELSE IF h = "not an rss feed" THEN 1 ELSE 2

\* a and b may stand in this order: tier, then domain, then feed URL
InRankOrder(a, b) ==
    \/ Tier(a.Health) < Tier(b.Health)
    \/ /\ Tier(a.Health) = Tier(b.Health)
       /\ \/ StrLess(a.Domain, b.Domain)
          \/ a.Domain = b.Domain /\ ~StrLess(b.FeedURL, a.FeedURL)

\* a and b tie on all three keys
SameKeys(a, b) ==
    /\ Tier(a.Health) = Tier(b.Health)
    /\ a.Domain = b.Domain
    /\ a.FeedURL = b.FeedURL

Ranked == mainPc = "create"

\* C11: after the ranking every earlier entry is in tier, then domain, then
\* feed URL order before every later one, an empty or unknown health counting
\* as broken, and the ranked slice holds each entry of the slice handed to
\* the sort exactly once, with every field as it was.
RankedOrderAndPermutation ==
    Ranked =>
        /\ \A p \in 1..Len(results) : \A q \in 1..Len(results) :
               p < q => InRankOrder(results[p], results[q])
        /\ Len(results) = Len(preRank)
        /\ \A k \in 1..Len(preRank) :
               Cardinality({j \in 1..Len(results) : results[j] = preRank[k]}) = 1

\* the sort moved entries, an unknown and an empty health were ranked, and a
\* tie on tier and domain was broken by the feed URL
RankedWitness ==
    /\ Ranked
    /\ results # preRank
    /\ \E k \in 1..Len(results) : results[k].Health = "unknown"
    /\ \E k \in 1..Len(results) : results[k].Health = ""
    /\ \E p \in 1..Len(results) : \E q \in 1..Len(results) :
           /\ p < q
           /\ results[p].ID > results[q].ID
           /\ Tier(results[p].Health) = Tier(results[q].Health)
           /\ results[p].Domain = results[q].Domain
           /\ results[p].FeedURL # results[q].FeedURL

\* the position of entry x in the slice handed to the sort
PreRankPos(x) == CHOOSE j \in 1..Len(preRank) : preRank[j] = x

\* C12: entries that tie on tier, domain and feed URL keep the order they had
\* in the slice handed to the sort, and sorting the ranked slice again
\* changes nothing.
RankingStableIdempotent ==
    Ranked =>
        /\ \A p \in 1..Len(results) : \A q \in 1..Len(results) :
               (p < q /\ SameKeys(results[p], results[q]))
                   => PreRankPos(results[p]) < PreRankPos(results[q])
        /\ SliceStable(results) = results

\* entries that tie were ranked behind an entry that came after them
TiesKeptWitness ==
    /\ Ranked
    /\ results # preRank
    /\ \E p \in 1..Len(results) : \E q \in 1..Len(results) :
           /\ p < q
           /\ SameKeys(results[p], results[q])
           /\ results[p].Health # results[q].Health
           /\ results[p].ID > 1

\* --------------------------------------------------------------- classifier
\* the reply declares an HTML content type or its body holds an HTML marker
HtmlMarked(reply) ==
    \/ reply.ct \in {"text/html", "text/HTML; charset=utf-8", "application/xhtml+xml"}
    \/ \E k \in 1..Len(reply.body) :
           reply.body[k].tag \in {"<html", "<HTML", "<!doctype html", "<!DOCTYPE html"}

\* the body holds one of the feed markers
FeedMarked(reply) ==
    \E k \in 1..Len(reply.body) :
        reply.body[k].tag \in {"<rss", "<RSS", "<feed", "<Feed", "<rdf:rdf", "<rdf:RDF", "<item", "<entry"}

\* the instants of the date-tag contents of the body that parse
ParsedDates(reply) ==
    {parseDateGuess(reply.body[k].date).t :
        k \in {j \in 1..Len(reply.body) :
                  IsDateTag(reply.body[j].tag) /\ parseDateGuess(reply.body[j].date).ok}}

MaxOf(S) == CHOOSE m \in S : \A x \in S : x <= m

\* worker idx has classified its response and written its slot, not yet ranked
HasClassified(idx) == mainPc = "dispatch" /\ Classified(outcome[idx])

\* C13: a response with an HTML content type or an HTML marker in its body is
\* classified "not an rss feed" with no timestamp, whatever feed markers and
\* dates its body holds.
HtmlPrecedence ==
    \A idx \in Workers :
        (HasClassified(idx) /\ HtmlMarked(outcome[idx]))
            => /\ results[idx + 1].Health = "not an rss feed"
               /\ results[idx + 1].LastItem = <<>>

\* an HTML marker in the body alone, next to a feed marker and a date that parses
HtmlOverFeedWitness ==
    \E idx \in Workers :
        /\ HasClassified(idx)
        /\ outcome[idx].ct = "application/rss+xml"
        /\ HtmlMarked(outcome[idx])
        /\ FeedMarked(outcome[idx])
        /\ ParsedDates(outcome[idx]) # {}
        /\ results[idx + 1].Health = "not an rss feed"

\* C14: without HTML marker, a body with a feed marker is healthy, with no
\* timestamp when none of its dates parses, and a body without feed marker is
\* broken.
FeedMarkerDecides ==
    \A idx \in Workers :
        (HasClassified(idx) /\ ~HtmlMarked(outcome[idx]))
            => IF FeedMarked(outcome[idx])
               THEN /\ results[idx + 1].Health = "healthy"
                    /\ ParsedDates(outcome[idx]) = {} => results[idx + 1].LastItem = <<>>
               ELSE /\ results[idx + 1].Health = "broken"
                    /\ results[idx + 1].LastItem = <<>>

\* a feed whose only date does not parse is healthy without timestamp
UndatedFeedWitness ==
    \E idx \in Workers :
        /\ HasClassified(idx)
        /\ ~HtmlMarked(outcome[idx])
        /\ FeedMarked(outcome[idx])
        /\ \E k \in 1..Len(outcome[idx].body) : outcome[idx].body[k].date.layout = "garbage"
        /\ ParsedDates(outcome[idx]) = {}
        /\ results[idx + 1].Health = "healthy"
        /\ results[idx + 1].LastItem = <<>>

\* C15: the timestamp of a feed-like body is the latest of the date-tag
\* contents that parse, whatever their order and whatever else fails to parse.
LatestIsMaximum ==
    \A idx \in Workers :
        (/\ HasClassified(idx)
         /\ ~HtmlMarked(outcome[idx])
         /\ FeedMarked(outcome[idx])
         /\ ParsedDates(outcome[idx]) # {})
            => results[idx + 1].LastItem = FormatRFC3339(MaxOf(ParsedDates(outcome[idx])))

\* C17: a Result carries a timestamp only if its health is healthy.
TimestampOnlyIfHealthy ==
    \A k \in 1..Len(results) :
        results[k].LastItem # <<>> => results[k].Health = "healthy"

\* a slot written with a timestamp
TimestampWitness ==
    \E idx \in Workers :
        /\ HasClassified(idx)
        /\ results[idx + 1].LastItem # <<>>
        /\ results[idx + 1].Health = "healthy"

\* ------------------------------------------------------------------- report
\* C16: once a fatal condition is reported (the input list unreadable, the
\* report file not created) the run has ended: no worker was launched, no
\* header and no row was emitted.
FatalReportEndsRun ==
    stderr # <<>> =>
        /\ mainPc = "exit1"
        /\ next = 0
        /\ ~table.header
        /\ table.rows = <<>>

InputFailed ==
    \E k \in 1..Len(stderr) :
        stderr[k] \in {"failed to open rss_feeds.txt", "error reading rss_feeds.txt"}

CreateFailed ==
    \E k \in 1..Len(stderr) : stderr[k] = "failed to create rss_health.md"

\* C16: an unreadable input list ends the run at once, with no URL list, no
\* worker, no printer and no table; a report file that cannot be created is
\* reported but the run goes on: the table goes to the terminal, header and
\* one row per URL, and nothing is written to the file.
InputFatalCreateNot ==
    /\ InputFailed =>
           /\ mainPc = "exit1"
           /\ Len(stderr) = 1
           /\ urls = <<>> /\ next = 0 /\ cpc = "unborn"
           /\ ~table.header /\ table.rows = <<>>
           /\ ~file.created
    /\ mainPc = "exit1" => InputFailed /\ ~ENABLED Next
    /\ CreateFailed =>
           /\ mainPc \in {"rows", "done"}
           /\ table.header
           /\ mainPc = "done" => Len(table.rows) = N
           /\ ~file.created /\ ~file.header /\ file.rows = <<>> /\ ~file.flushed

\* main has returned after a failed os.Create, with the table on the terminal
TableWithoutFileWitness ==
    /\ CreateFailed
    /\ mainPc = "done"
    /\ Len(table.rows) >= 2

HealthValues == {"healthy", "not an rss feed", "broken"}

\* C18: every slot a worker has written, every Result handed to the ranking and
\* every row of the table has a health of the fixed set; a Result whose health
\* was never set would be reported as broken.
HealthAlwaysSet ==
    /\ \A idx \in Workers :
           (mainPc = "dispatch" /\ wpc[idx] \in {"incr", "send", "release", "wgdone", "done"})
               => results[idx + 1].Health \in HealthValues
    /\ Drained => \A k \in 1..Len(results) : results[k].Health \in HealthValues
    /\ \A k \in 1..Len(table.rows) : table.rows[k].health \in HealthValues
    /\ \A k \in 1..Len(file.rows) : file.rows[k].health \in HealthValues
    /\ Row(0, ZeroResult).health = "broken"

\* a report with a failed fetch and a page that is no feed
HealthReportedWitness ==
    /\ mainPc = "done"
    /\ file.flushed
    /\ \E idx \in Workers : outcome[idx].kind = "transport error"
    /\ \E k \in 1..Len(table.rows) : table.rows[k].health = "not an rss feed"
    /\ \E k \in 1..Len(table.rows) : table.rows[k].health = "broken"

\* ------------------------------------------------------- progress channel
\* C19: when main has returned, every notification sent has been printed.
AllPrintedAtReturn == mainPc = "done" => printed = sentCount

\* C20: a worker at its send can always send: the channel never holds more
\* than len(urls) messages and no more than len(urls) are ever sent, whether
\* or not the printer receives anything.
SendNeverBlocks ==
    /\ Len(progressCh) <= N
    /\ sentCount <= N
    /\ \A idx \in Workers : (Running /\ wpc[idx] = "send") => ENABLED Send(idx)

\* the channel is full and the printer has not received anything
StalledConsumerWitness ==
    /\ N >= 2
    /\ Len(progressCh) = N
    /\ recvCount = 0
    /\ cpc = "recv"
    /\ \A idx \in Workers : wpc[idx] = "done"

====
